---------------------------- MODULE Spec2Model ----------------------------
(***************************************************************************)
(* The MIDI-driven LED light engine (class LightEngine): its parameter and *)
(* note state, the three MIDI handlers, getCC/setCC and the render         *)
(* pipeline (background pass, memcpy, foreground pass) as a state machine. *)
(***************************************************************************)
EXTENDS Integers, Sequences, FiniteSets, TLC

(***************************************************************************)
(* Program constants and lookup tables                                     *)
(***************************************************************************)

\* LightEngine(int numLeds = 108): the only supported strip length.
numLeds == 108

\* Conversion of an int to uint8_t (parameters of the handlers and of setLED,
\* fields of HSVColor): reduction modulo 256, also for negative values.
U8(x) == x % 256

\* C integer division and remainder: the quotient truncates toward zero.
CDiv(a, b) ==
    IF b > 0
    THEN (IF a >= 0 THEN a \div b ELSE -((-a) \div b))
    ELSE (IF a >= 0 THEN -(a \div (-b)) ELSE (-a) \div (-b))

CMod(a, b) == a - b * CDiv(a, b)

\* COLOR_PHASE[64], read with a 0-based index.
COLOR_PHASE_TABLE ==
    << 10, 20, 29, 38, 47, 56, 63, 71, 77, 83, 88, 92, 96, 98, 100, 100,
       100, 98, 96, 92, 88, 83, 77, 71, 63, 56, 47, 38, 29, 20, 10, 0,
       -10, -20, -29, -38, -47, -56, -63, -71, -77, -83, -88, -92, -96, -98, -100, -100,
       -100, -98, -96, -92, -88, -83, -77, -71, -63, -56, -47, -38, -29, -20, -10, 0 >>

COLOR_PHASE(i) == COLOR_PHASE_TABLE[i + 1]

\* TOP_BOTTOM_MIRROR_MAP[48], read with a 0-based index.
TOP_BOTTOM_MIRROR_TABLE ==
    << 23, 22, 21, 20, 19, 18, 17, 16, 15, 14, 13, 12, 11, 10, 9, 8, 7, 6, 5, 4, 3, 2, 1, 0,
       95, 94, 93, 92, 91, 90, 89, 88, 87, 86, 85, 84, 83, 82, 81, 80, 79, 78, 77, 76, 75, 74, 73, 72 >>

\* The table read one entry further on, wrapping at its end.
mirrorMapOffByOne(j) == TOP_BOTTOM_MIRROR_TABLE[((j + 1) % 48) + 1]

TOP_BOTTOM_MIRROR_MAP(j) == TOP_BOTTOM_MIRROR_TABLE[j + 1]

\* CHANNEL_TO_LED[17][6], rows 0..16 and columns 0..5.
CHANNEL_TO_LED_TABLE ==
    << <<0, 0, 0, 0, 0, 0>>,
       <<19, 20, 21, 22, 23, 24>>,
       <<29, 30, 31, 32, 33, 34>>,
       <<13, 14, 15, 16, 17, 18>>,
       <<35, 36, 37, 38, 39, 40>>,
       <<7, 8, 9, 10, 11, 12>>,
       <<41, 42, 43, 44, 45, 46>>,
       <<1, 2, 3, 4, 5, 6>>,
       <<47, 48, 49, 50, 51, 52>>,
       <<73, 74, 75, 76, 77, 78>>,
       <<83, 84, 85, 86, 87, 88>>,
       <<67, 68, 69, 70, 71, 72>>,
       <<89, 90, 91, 92, 93, 94>>,
       <<61, 62, 63, 64, 65, 66>>,
       <<95, 96, 97, 98, 99, 100>>,
       <<55, 56, 57, 58, 59, 60>>,
       <<101, 102, 103, 104, 105, 106>> >>

CHANNEL_TO_LED(ch, i) == CHANNEL_TO_LED_TABLE[ch + 1][i + 1]

\* An HSVColor {uint8_t h, s, v}: every assignment converts to uint8_t.
HSVColor(h, s, v) == [h |-> U8(h), s |-> U8(s), v |-> U8(v)]

(***************************************************************************)
(* State                                                                   *)
(***************************************************************************)

VARIABLES
    ffHue, ffSat, ffBright, ffLedStart, ffLedLength, ffMode, lines,  \* CC 1..7
    cAmp, bgMode, pan,                                               \* CC 8..10
    bgHue, bgSat, bgBright, bgLedStart, bgLedLength,                 \* CC 11..15
    activeNotes,     \* uint8_t activeNotes[128]
    currentNote,     \* uint8_t currentNote[17]
    lineOffset,      \* int lineOffset
    frameCounter,    \* uint32_t frameCounter
    leds,            \* HSVColor leds[numLeds]
    background,      \* HSVColor background[numLeds]
    twin,            \* leds, background and lineOffset of a second engine
                     \* holding the same parameters, notes and frame counter
    hist             \* the calls made so far, oldest first

params == <<ffHue, ffSat, ffBright, ffLedStart, ffLedLength, ffMode, lines,
            cAmp, bgMode, pan, bgHue, bgSat, bgBright, bgLedStart, bgLedLength>>

noteState == <<activeNotes, currentNote>>

buffers == <<leds, background, lineOffset>>

vars == <<params, noteState, frameCounter, buffers, twin, hist>>

\* The checkerboard the constructor and Notes-to-Drives paint: hue 80 at even
\* positions, hue 100 at odd ones, saturation 200.
checkerboard(i, bright) ==
    IF i % 2 = 0 THEN HSVColor(80, 200, bright) ELSE HSVColor(100, 200, bright)

\* LightEngine::LightEngine, past the parameter defaults: the note state,
\* the helpers and the two buffers (leds[i].v = ffBright, which is 200 there).
Constructed ==
    /\ activeNotes = [n \in 0..127 |-> 0]
    /\ currentNote = [c \in 0..16 |-> 0]
    /\ lineOffset = 0
    /\ frameCounter = 0
    /\ leds = [i \in 0..(numLeds - 1) |-> checkerboard(i, 200)]
    /\ background = [i \in 0..(numLeds - 1) |-> HSVColor(0, 0, 0)]
    /\ twin = [leds |-> [i \in 0..(numLeds - 1) |-> checkerboard(i, 200)],
               background |-> [i \in 0..(numLeds - 1) |-> HSVColor(0, 0, 0)],
               lineOffset |-> 0]
    /\ hist = << >>

\* LightEngine::LightEngine
Init ==
    /\ ffHue = 0
    /\ ffSat = 200
    /\ ffBright = 200
    /\ ffLedStart = 0
    /\ ffLedLength = 0
    /\ ffMode = 0
    /\ lines = 0
    /\ cAmp = 0
    /\ bgMode = 0
    /\ pan = 64
    /\ bgHue = 0
    /\ bgSat = 200
    /\ bgBright = 0
    /\ bgLedStart = 0
    /\ bgLedLength = 0
    /\ Constructed

(***************************************************************************)
(* MIDI event handlers                                                     *)
(***************************************************************************)

\* "value * 2": the scaling of the six hue/saturation/brightness cases.
ScaleOdd(value) == value * 2 + 1

ScaleNone(value) == value

Scale(value) == value * 2

\* "case n:" of the switch on the uint8_t control.
CaseLoose(control, n) == control = n \/ (n = 15 /\ control > 15)

Case(control, n) == control = n

\* LightEngine::handleControlChange(uint8_t channel, uint8_t control, uint8_t value)
handleControlChange(channel, control, value) ==
    /\ ffHue' = IF Case(control, 1) THEN Scale(value) ELSE ffHue
    /\ ffSat' = IF Case(control, 2) THEN Scale(value) ELSE ffSat
    /\ ffBright' = IF Case(control, 3) THEN Scale(value) ELSE ffBright
    /\ ffLedStart' = IF Case(control, 4) THEN value ELSE ffLedStart
    /\ ffLedLength' = IF Case(control, 5) THEN value ELSE ffLedLength
    /\ ffMode' = IF Case(control, 6) THEN value ELSE ffMode
    /\ lines' = IF Case(control, 7) THEN value ELSE lines
    /\ cAmp' = IF Case(control, 8) THEN value ELSE cAmp
    /\ bgMode' = IF Case(control, 9) THEN value ELSE bgMode
    /\ pan' = IF Case(control, 10) THEN value ELSE pan
    /\ bgHue' = IF Case(control, 11) THEN Scale(value) ELSE bgHue
    /\ bgSat' = IF Case(control, 12) THEN Scale(value) ELSE bgSat
    /\ bgBright' = IF Case(control, 13) THEN Scale(value) ELSE bgBright
    /\ bgLedStart' = IF Case(control, 14) THEN value ELSE bgLedStart
    /\ bgLedLength' = IF Case(control, 15) THEN value ELSE bgLedLength
    /\ UNCHANGED <<noteState, frameCounter, buffers>>

\* "ffLedStart += 1; if (ffLedStart >= 127) ffLedStart = 0;"
advanceStartNoWrap(start) == start + 1

advanceStart(start) == IF start + 1 >= 127 THEN 0 ELSE start + 1

\* "if (note < 128)": the guard of both handlers' accesses to activeNotes.
noteInRange(note) == note < 128

\* "if (channel >= 1 && channel <= 16)": the guard of both handlers'
\* accesses to currentNote.
channelInRange(channel) == channel >= 1 /\ channel <= 16

\* LightEngine::handleNoteOn(uint8_t channel, uint8_t note, uint8_t velocity)
handleNoteOn(channel, note, velocity) ==
    /\ activeNotes' = IF noteInRange(note)
                      THEN [activeNotes EXCEPT ![note] = velocity]
                      ELSE activeNotes
    /\ currentNote' = IF channelInRange(channel)
                      THEN [currentNote EXCEPT ![channel] = note]
                      ELSE currentNote
    /\ ffLedStart' = IF ffMode = 5 THEN advanceStart(ffLedStart) ELSE ffLedStart
    /\ UNCHANGED <<ffHue, ffSat, ffBright, ffLedLength, ffMode, lines, cAmp, bgMode,
                   pan, bgHue, bgSat, bgBright, bgLedStart, bgLedLength>>
    /\ UNCHANGED <<frameCounter, buffers>>

\* "if (currentNote[channel] == note) currentNote[channel] = 0;"
clearAlways(cur, note) == 0

\* A note-off that leaves the channel's note in place.
clearNever(cur, note) == cur

clearCurrent(cur, note) == IF cur = note THEN 0 ELSE cur

\* LightEngine::handleNoteOff(uint8_t channel, uint8_t note, uint8_t velocity)
handleNoteOff(channel, note, velocity) ==
    /\ activeNotes' = IF noteInRange(note)
                      THEN [activeNotes EXCEPT ![note] = 0]
                      ELSE activeNotes
    /\ currentNote' = IF channelInRange(channel)
                      THEN [currentNote EXCEPT
                                ![channel] = clearCurrent(currentNote[channel], note)]
                      ELSE currentNote
    /\ UNCHANGED <<params, frameCounter, buffers>>

(***************************************************************************)
(* State access                                                            *)
(***************************************************************************)

\* LightEngine::getCC(int ccNumber) const
getCCRaw(ccNumber) ==
    CASE ccNumber = 1 -> ffHue
      [] ccNumber = 2 -> ffSat
      [] ccNumber = 3 -> ffBright
      [] ccNumber = 4 -> ffLedStart
      [] ccNumber = 5 -> ffLedLength
      [] ccNumber = 6 -> ffMode
      [] ccNumber = 7 -> lines
      [] ccNumber = 8 -> cAmp
      [] ccNumber = 9 -> bgMode
      [] ccNumber = 10 -> pan
      [] ccNumber = 11 -> bgHue
      [] ccNumber = 12 -> bgSat
      [] ccNumber = 13 -> bgBright
      [] ccNumber = 14 -> bgLedStart
      [] ccNumber = 15 -> bgLedLength
      [] OTHER -> 0

getCC(ccNumber) ==
    CASE ccNumber = 1 -> CDiv(ffHue, 2)
      [] ccNumber = 2 -> CDiv(ffSat, 2)
      [] ccNumber = 3 -> CDiv(ffBright, 2)
      [] ccNumber = 4 -> ffLedStart
      [] ccNumber = 5 -> ffLedLength
      [] ccNumber = 6 -> ffMode
      [] ccNumber = 7 -> lines
      [] ccNumber = 8 -> cAmp
      [] ccNumber = 9 -> bgMode
      [] ccNumber = 10 -> pan
      [] ccNumber = 11 -> CDiv(bgHue, 2)
      [] ccNumber = 12 -> CDiv(bgSat, 2)
      [] ccNumber = 13 -> CDiv(bgBright, 2)
      [] ccNumber = 14 -> bgLedStart
      [] ccNumber = 15 -> bgLedLength
      [] OTHER -> 0

\* LightEngine::setCC(int ccNumber, int value): both ints are converted to the
\* uint8_t parameters of handleControlChange.
setCC(ccNumber, value) == handleControlChange(0, U8(ccNumber), U8(value))

(***************************************************************************)
(* Rendering pipeline.  A background renderer yields the background buffer  *)
(* after its loop.  A foreground renderer is the sequence of its setLED     *)
(* calls in the order the code makes them; setLEDs applies such a sequence  *)
(* to a buffer.  The parameters are read from the engine's fields.          *)
(***************************************************************************)

\* One call setLED(index, h, s, v).
Write(index, h, s, v) == [index |-> index, h |-> h, s |-> s, v |-> v]

\* The bounds check of LightEngine::setLED(int index, uint8_t h, uint8_t s,
\* uint8_t v): "if (index >= 0 && index < numLeds)".
setLEDUnchecked(index) == TRUE

setLED(index) == index >= 0 /\ index < numLeds

\* The buffer after the calls ws[1], ws[2], ... of setLED on buf: an LED holds
\* the (h, s, v) of the last call that passed the bounds check for it, and
\* its old content when there is none.
setLEDs(buf, ws) ==
    LET calls == {<<ws[k].index, k>> : k \in DOMAIN ws}
        written == {c[1] : c \in {d \in calls : setLED(d[1])}}
    IN  [i \in DOMAIN buf |->
            IF i \notin written THEN buf[i]
            ELSE LET ks == {c[2] : c \in {d \in calls : d[1] = i}}
                     k == CHOOSE m \in ks : \A n \in ks : n <= m
                 IN  HSVColor(ws[k].h, ws[k].s, ws[k].v)]

\* memcpy(dst, src, n * sizeof(HSVColor)) of updateBackground / copyBackground
memcpySkipped(dst, src, n) == dst

memcpy(dst, src, n) == [i \in DOMAIN dst |-> IF i < n THEN src[i] ELSE dst[i]]

\* The hue step rounded up instead of truncated.
rainbowIncRounded == CDiv(255 + numLeds - 1, numLeds)

\* "int rainbowInc = 255 / numLeds;"
rainbowInc == CDiv(255, numLeds)

\* LightEngine::renderFlatBackground
renderFlatBackground(bg) ==
    [i \in DOMAIN bg |-> IF i < numLeds THEN HSVColor(bgHue, bgSat, bgBright) ELSE bg[i]]

\* LightEngine::renderRainbowBackground
renderRainbowBackground(bg) ==
    [i \in DOMAIN bg |->
        IF i < numLeds
        THEN HSVColor(CMod(bgHue + i * rainbowInc, 256), bgSat, bgBright)
        ELSE bg[i]]

\* The hue with the amplitude term rounded down instead of toward zero.
sinusoidHueFloored(i, hue, start, length) ==
    LET idx == CMod(CDiv((i + start) * 64, length), 64)
    IN  (256 + hue + ((cAmp * COLOR_PHASE(idx)) \div 100)) % 256

\* "int cphaseIdx = ((i + start) * 64 / length) % 64;"
cphaseIdx(i, start, length) == CMod(CDiv((i + start) * 64, length), 64)

\* The hue of LED i in both colour sinusoids: start/length are the layer's
\* LedStart/LedLength, hue its hue.
sinusoidHue(i, hue, start, length) ==
    CMod(256 + hue + CDiv(cAmp * COLOR_PHASE(cphaseIdx(i, start, length)), 100), 256)

\* LightEngine::renderSinusoidBackground
renderSinusoidBackground(bg) ==
    IF bgLedLength = 0
    THEN renderFlatBackground(bg)
    ELSE [i \in DOMAIN bg |->
            IF i < numLeds
            THEN HSVColor(sinusoidHue(i, bgHue, bgLedStart, bgLedLength), bgSat, bgBright)
            ELSE bg[i]]

\* The switch without its default case: an unknown mode leaves the
\* background buffer as it was.
backgroundPassNoDefault(bg) ==
    CASE bgMode = 0 -> renderFlatBackground(bg)
      [] bgMode = 1 -> renderRainbowBackground(bg)
      [] bgMode = 2 -> renderSinusoidBackground(bg)
      [] OTHER -> bg

\* The switch of LightEngine::updateBackground
backgroundPass(bg) ==
    CASE bgMode = 0 -> renderFlatBackground(bg)
      [] bgMode = 1 -> renderRainbowBackground(bg)
      [] bgMode = 2 -> renderSinusoidBackground(bg)
      [] OTHER -> renderFlatBackground(bg)

\* The channel loop started at row 0 of the table.
renderNotesToDrivesFromZero ==
    [k \in 1..(17 * 6) |->
        LET ch == (k - 1) \div 6
            i == (k - 1) % 6
            ledIdx == CHANNEL_TO_LED(ch, i)
        IN  IF currentNote[ch] # 0
            THEN Write(ledIdx, ffHue, ffSat, ffBright)
            ELSE IF i % 2 = 0
                 THEN Write(ledIdx, 80, 200, ffBright)
                 ELSE Write(ledIdx, 100, 200, ffBright)]

\* LightEngine::renderNotesToDrives: channels 1..16, 6 LEDs each.
renderNotesToDrives ==
    [k \in 1..(16 * 6) |->
        LET ch == 1 + ((k - 1) \div 6)
            i == (k - 1) % 6
            ledIdx == CHANNEL_TO_LED(ch, i)
        IN  IF currentNote[ch] # 0
            THEN Write(ledIdx, ffHue, ffSat, ffBright)
            ELSE IF i % 2 = 0
                 THEN Write(ledIdx, 80, 200, ffBright)
                 ELSE Write(ledIdx, 100, 200, ffBright)]

\* LightEngine::renderRainbowWheel
renderRainbowWheel ==
    [k \in 1..numLeds |->
        LET i == k - 1
        IN  Write(i, CMod(ffHue + i * rainbowInc, 256), ffSat, ffBright)]

\* The nested loops of Moving Dots (2), Comets (3) and Move-start (5):
\* "for line in [0, lines)" around "for led in [ffLedStart, ffLedStart +
\* ffLedLength)", the comet's count running down from ffLedLength - 1.
\* The member lineOffset as the previous frame left it: what the loop would
\* read were the assignment placed after it.
lineOffsetStale(assigned) == lineOffset

\* The member lineOffset as the loop reads it: the value assigned just
\* before the loop.
lineOffsetInLoop(assigned) == assigned

\* The comet's ramp started one step early: black at the first LED and
\* short of ffBright at the last.
cometBrightnessFromZero(count) ==
    CDiv(ffBright * (ffLedLength - 1 - count), ffLedLength)

\* "int brightness = ffBright * (ffLedLength - count) / ffLedLength;"
cometBrightness(count) == CDiv(ffBright * (ffLedLength - count), ffLedLength)

lineWrites(mode) ==
    [k \in 1..(lines * ffLedLength) |->
        LET line == (k - 1) \div ffLedLength
            pos == (k - 1) % ffLedLength
            led == ffLedStart + pos
            count == ffLedLength - 1 - pos
            idx == CMod(led + line * lineOffsetInLoop(CDiv(numLeds, lines)), numLeds)
        IN  CASE mode = 2 -> Write(idx, ffHue, ffSat, ffBright)
              [] mode = 3 -> Write(idx, ffHue, ffSat, cometBrightness(count))
              [] mode = 5 -> Write(idx, CMod(ffHue + led * rainbowInc, 256),
                                   ffSat, ffBright)]

\* Moving Dots without the "% numLeds": an index past the strip's end is
\* dropped by setLED instead of wrapping to the start.
renderMovingDotsUnwrapped ==
    IF lines = 0 THEN << >>
    ELSE [k \in 1..(lines * ffLedLength) |->
            LET line == (k - 1) \div ffLedLength
                led == ffLedStart + ((k - 1) % ffLedLength)
            IN  Write(led + line * CDiv(numLeds, lines), ffHue, ffSat, ffBright)]

\* LightEngine::renderMovingDots
renderMovingDots == IF lines = 0 THEN << >> ELSE lineWrites(2)

\* The early return of renderComets testing the line count alone.
cometsReturnsOnLines == lines = 0

\* "if (lines == 0 || ffLedLength == 0) return;"
cometsReturns == lines = 0 \/ ffLedLength = 0

\* LightEngine::renderComets
renderComets == IF cometsReturns THEN << >> ELSE lineWrites(3)

\* LightEngine::renderMoveStartLED
renderMoveStartLED == IF lines = 0 THEN << >> ELSE lineWrites(5)

\* Back-and-forth counting whole strides only: the last block is missing
\* whenever 2 * ffLedLength does not divide numLeds.
renderBackAndForthWholeStrides ==
    IF ffLedLength = 0 THEN << >>
    ELSE LET blocks == CDiv(numLeds, 2 * ffLedLength)
         IN  [k \in 1..(blocks * ffLedLength) |->
                LET block == ((k - 1) \div ffLedLength) * 2 * ffLedLength
                    led == (k - 1) % ffLedLength
                IN  Write(CMod(ffLedStart * ffLedLength + block + led, numLeds),
                          ffHue, ffSat, ffBright)]

\* LightEngine::renderBackAndForth: blocks 0, 2L, 4L, ... below numLeds.
renderBackAndForth ==
    IF ffLedLength = 0 THEN << >>
    ELSE LET blocks == CDiv(numLeds - 1, 2 * ffLedLength) + 1
         IN  [k \in 1..(blocks * ffLedLength) |->
                LET block == ((k - 1) \div ffLedLength) * 2 * ffLedLength
                    led == (k - 1) % ffLedLength
                IN  Write(CMod(ffLedStart * ffLedLength + block + led, numLeds),
                          ffHue, ffSat, ffBright)]

\* LightEngine::renderColorSinusoid
renderColorSinusoid ==
    IF ffLedLength = 0 THEN << >>
    ELSE [k \in 1..numLeds |->
            LET i == k - 1
            IN  Write(i, sinusoidHue(i, ffHue, ffLedStart, ffLedLength), ffSat, ffBright)]

\* Flash with the index taken from ffLedStart on: the LED painted would
\* then depend on the control changes received.
renderFlashLightsFromStart(rnd) ==
    << Write(CMod(rnd + ffLedStart, numLeds), ffHue, ffSat, ffBright) >>

\* LightEngine::renderFlashLights; rnd is what rand() returns after
\* srand(frameCounter).
renderFlashLights(rnd) == << Write(CMod(rnd, numLeds), ffHue, ffSat, ffBright) >>

\* "int tMiddle = (numLeds / 2 - 1) * pan / 127 + numLeds / 4;"
waveMiddle == CDiv((CDiv(numLeds, 2) - 1) * pan, 127) + CDiv(numLeds, 4)

\* The clamped amplitude of renderOceanWaves.
oceanAmp ==
    LET tMiddle == waveMiddle
        amp == CDiv(ffLedLength, 2)
    IN  IF tMiddle - amp <= 24 THEN tMiddle - 24
        ELSE IF tMiddle + amp > 71 THEN 71 - tMiddle
        ELSE amp

\* The clamped amplitude of renderOpposingWaves.
opposingAmp ==
    LET tMiddle == waveMiddle
        amp == CDiv(ffLedLength, 2)
    IN  IF tMiddle - amp <= 24 THEN tMiddle - 23
        ELSE IF tMiddle + amp > 71 THEN 71 - tMiddle
        ELSE amp

\* The index of a call that is not made: setLED writes no LED for it.
NoLED == -1

\* "if (j >= 0 && j < 48) { mirrorIdx = TOP_BOTTOM_MIRROR_MAP[j]; setLED(mirrorIdx, ...) }"
mirrorGuard(j) == j >= 0 /\ j < 48

mirrorIdx(j) == IF mirrorGuard(j) THEN TOP_BOTTOM_MIRROR_MAP(j) ELSE NoLED

\* The four calls of one pass p of a wave loop: the two direct ones around
\* tMiddle, then the two mirrored ones around base.
waveWrites(passes, amp, tMiddle, base) ==
    [k \in 1..(4 * passes) |->
        LET p == (k - 1) \div 4
            brightness == CDiv(ffBright * (amp - p), amp)
        IN  CASE (k - 1) % 4 = 0 -> Write(tMiddle + p, ffHue, ffSat, brightness)
              [] (k - 1) % 4 = 1 -> Write(tMiddle - p, ffHue, ffSat, brightness)
              [] (k - 1) % 4 = 2 -> Write(mirrorIdx(base + p - 24), ffHue, ffSat, brightness)
              [] (k - 1) % 4 = 3 -> Write(mirrorIdx(base - p - 24), ffHue, ffSat, brightness)]

\* LightEngine::renderOceanWaves: "for (int p = 0; p < amp; p++)".
renderOceanWaves ==
    IF oceanAmp <= 0 THEN << >>
    ELSE waveWrites(oceanAmp, oceanAmp, waveMiddle, waveMiddle)

\* LightEngine::renderOpposingWaves: "for (int p = 0; p <= amp; p++)".
renderOpposingWaves ==
    IF opposingAmp <= 0 THEN << >>
    ELSE waveWrites(opposingAmp + 1, opposingAmp, waveMiddle, numLeds - waveMiddle)

\* The setLED calls of the renderer that the switch of
\* LightEngine::renderForeground selects, in order; none for a mode above 9.
foregroundCalls(rnd) ==
    CASE ffMode = 0 -> renderNotesToDrives
      [] ffMode = 1 -> renderRainbowWheel
      [] ffMode = 2 -> renderMovingDots
      [] ffMode = 3 -> renderComets
      [] ffMode = 4 -> renderBackAndForth
      [] ffMode = 5 -> renderMoveStartLED
      [] ffMode = 6 -> renderColorSinusoid
      [] ffMode = 7 -> renderFlashLights(rnd)
      [] ffMode = 8 -> renderOceanWaves
      [] ffMode = 9 -> renderOpposingWaves
      [] OTHER -> << >>

\* LightEngine::renderForeground
renderForeground(buf, rnd) ==
    IF ffMode \in 0..9 THEN setLEDs(buf, foregroundCalls(rnd)) ELSE buf

\* The member lineOffset after renderForeground: "lineOffset = numLeds / lines"
\* in modes 2, 3 and 5, past their early returns.
lineOffsetAfter(old) ==
    IF \/ (ffMode = 2 /\ lines # 0)
       \/ (ffMode = 3 /\ ~cometsReturns)
       \/ (ffMode = 5 /\ lines # 0)
    THEN CDiv(numLeds, lines)
    ELSE old

\* updateBackground then renderForeground on the buffers b of an engine:
\* the background switch, the memcpy into leds, the foreground over it.
renderBuffers(b, rnd) ==
    LET bg == backgroundPass(b.background)
    IN  [leds |-> renderForeground(memcpy(b.leds, bg, numLeds), rnd),
         background |-> bg,
         lineOffset |-> lineOffsetAfter(b.lineOffset)]

\* The counter advanced by two a frame.
nextFrameCounterSkipping(f) == f + 2

\* "frameCounter++;"
nextFrameCounter(f) == f + 1

\* LightEngine::render; rnd is the value of rand() for the seed frameCounter.
\* The uint32_t frameCounter wraps only after 2^32 renders, which no run
\* below comes near, so the increment is the plain one.
render(rnd) ==
    LET out == renderBuffers([leds |-> leds, background |-> background,
                              lineOffset |-> lineOffset], rnd)
    IN  /\ frameCounter' = nextFrameCounter(frameCounter)
        /\ leds' = out.leds
        /\ background' = out.background
        /\ lineOffset' = out.lineOffset
        /\ UNCHANGED <<params, noteState>>

(***************************************************************************)
(* Calls.  Each call of the public interface is one step; hist records it.  *)
(* The second engine (twin) renders whenever the engine does.               *)
(***************************************************************************)

Op(name, a, b, c) == [op |-> name, a |-> a, b |-> b, c |-> c]

\* The k-th most recent call (1 = the last one); a null record before it.
NoOp == Op("none", 0, 0, 0)

Recent(k) == IF Len(hist) >= k THEN hist[Len(hist) + 1 - k] ELSE NoOp

LastCall == Recent(1)

ControlChangeCall(channel, control, value) ==
    /\ handleControlChange(channel, control, value)
    /\ hist' = Append(hist, Op("handleControlChange", channel, control, value))
    /\ UNCHANGED twin

SetCCCall(ccNumber, value) ==
    /\ setCC(ccNumber, value)
    /\ hist' = Append(hist, Op("setCC", 0, ccNumber, value))
    /\ UNCHANGED twin

\* LightEngine::getCC is const: the call returns a value and changes nothing.
GetCCCall(ccNumber) ==
    /\ hist' = Append(hist, Op("getCC", 0, ccNumber, getCC(ccNumber)))
    /\ UNCHANGED <<params, noteState, frameCounter, buffers, twin>>

NoteOnCall(channel, note, velocity) ==
    /\ handleNoteOn(channel, note, velocity)
    /\ hist' = Append(hist, Op("handleNoteOn", channel, note, velocity))
    /\ UNCHANGED twin

NoteOffCall(channel, note, velocity) ==
    /\ handleNoteOff(channel, note, velocity)
    /\ hist' = Append(hist, Op("handleNoteOff", channel, note, velocity))
    /\ UNCHANGED twin

\* Values rand() may return after srand(seed): the C library fixes one value
\* per seed, and the counter gives every render of one run a new seed.
RandOutputs == {0, 107, 108, 32767}

RenderCall ==
    \E rnd \in (IF ffMode = 7 THEN RandOutputs ELSE {0}) :
        /\ render(rnd)
        /\ twin' = renderBuffers(twin, rnd)
        /\ hist' = Append(hist, Op("render", 0, 0, rnd))

\* Buffers and lineOffset another call history leaves behind: a flat fill
\* with no foreground, and a rainbow wheel over it, after renders in the
\* line modes with lines = 1 and lines = 108.
TwinStates ==
    LET flat == [i \in 0..(numLeds - 1) |-> HSVColor(254, 254, 254)]
        wheel == [i \in 0..(numLeds - 1) |-> HSVColor(2 * i, 100, 50)]
    IN  { [leds |-> flat, background |-> flat, lineOffset |-> 108],
          [leds |-> wheel, background |-> flat, lineOffset |-> 1] }

\* The second engine has been through other calls than the first.
TwinHistory ==
    /\ \E t \in TwinStates : twin' = t
    /\ twin' # twin
    /\ hist' = Append(hist, Op("twin", 0, 0, 0))
    /\ UNCHANGED <<params, noteState, frameCounter, buffers>>

(***************************************************************************)
(* Spec: the engine from construction, under every call of its interface.   *)
(***************************************************************************)

MaxOps == 2

CCChannels == {0, 16}

CCControls == {0, 255} \cup (1..16)

CCValues == {5, 127}

SetCCNumbers == {-255, -1, 0, 3, 6, 12, 15, 16, 256, 257, 262}

SetCCValues == {100}

NoteChannels == {1, 17}

NoteNumbers == {0, 60}

ControlChange ==
    /\ Len(hist) < MaxOps
    /\ \E channel \in CCChannels, control \in CCControls, value \in CCValues :
            ControlChangeCall(channel, control, value)

SetCC ==
    /\ Len(hist) < MaxOps
    /\ \E ccNumber \in SetCCNumbers, value \in SetCCValues : SetCCCall(ccNumber, value)

NoteOn ==
    /\ Len(hist) < MaxOps
    /\ \E channel \in NoteChannels, note \in NoteNumbers : NoteOnCall(channel, note, 100)

NoteOff ==
    /\ Len(hist) < MaxOps
    /\ \E channel \in NoteChannels, note \in NoteNumbers : NoteOffCall(channel, note, 0)

Render ==
    /\ Len(hist) < MaxOps
    /\ RenderCall

GetCCNumbers == {3, 257}

GetCC ==
    /\ Len(hist) < MaxOps
    /\ \E ccNumber \in GetCCNumbers : GetCCCall(ccNumber)

Next == ControlChange \/ SetCC \/ GetCC \/ NoteOn \/ NoteOff \/ Render

Spec == Init /\ [][Next]_vars

(***************************************************************************)
(* SpecNotes: note events and renders from construction, MaxNoteOps deep,   *)
(* with the control changes that select Move-start-on-note and move         *)
(* ffLedStart next to its wrap.                                             *)
(***************************************************************************)

MaxNoteOps == 4

NotesCCInputs == {<<6, 5>>, <<4, 126>>, <<4, 127>>}

\* <<channel, note>>
NotesOnInputs == {<<0, 36>>, <<1, 0>>, <<1, 36>>, <<1, 60>>, <<16, 36>>, <<17, 36>>}

NotesOffInputs == {<<1, 0>>, <<1, 36>>, <<1, 60>>, <<16, 36>>}

NotesControlChange ==
    /\ Len(hist) < MaxNoteOps
    /\ \E cv \in NotesCCInputs : ControlChangeCall(1, cv[1], cv[2])

NotesNoteOn ==
    /\ Len(hist) < MaxNoteOps
    /\ \E cn \in NotesOnInputs : NoteOnCall(cn[1], cn[2], 100)

NotesNoteOff ==
    /\ Len(hist) < MaxNoteOps
    /\ \E cn \in NotesOffInputs : NoteOffCall(cn[1], cn[2], 64)

NotesRender ==
    /\ Len(hist) < MaxNoteOps
    /\ RenderCall

NextNotes == NotesControlChange \/ NotesNoteOn \/ NotesNoteOff \/ NotesRender

SpecNotes == Init /\ [][NextNotes]_vars

(***************************************************************************)
(* SpecRender: renders, note events and a diverging second engine, from     *)
(* parameter values that control changes with values 0..127 reach: every    *)
(* foreground and background mode (and out-of-range selectors) crossed      *)
(* with a few geometries and colours.  hist holds the calls made since.     *)
(***************************************************************************)

MaxRenderOps == 2

FgModes == (0..10) \cup {127}

BgModes == 0..3

\* ffLedStart, ffLedLength, lines, cAmp, pan, bgLedStart, bgLedLength
Geometries ==
    { <<10, 5, 3, 50, 64, 3, 20>>,
      <<126, 127, 2, 127, 127, 127, 1>>,
      <<0, 0, 0, 0, 0, 0, 0>>,
      <<100, 3, 127, 100, 10, 60, 127>> }

\* ffHue, ffSat, ffBright, bgHue, bgSat, bgBright
Colours ==
    { <<0, 200, 200, 0, 200, 0>>,
      <<250, 254, 100, 128, 60, 254>> }

InitRender ==
    /\ \E g \in Geometries :
        /\ ffLedStart = g[1]
        /\ ffLedLength = g[2]
        /\ lines = g[3]
        /\ cAmp = g[4]
        /\ pan = g[5]
        /\ bgLedStart = g[6]
        /\ bgLedLength = g[7]
    /\ \E c \in Colours :
        /\ ffHue = c[1]
        /\ ffSat = c[2]
        /\ ffBright = c[3]
        /\ bgHue = c[4]
        /\ bgSat = c[5]
        /\ bgBright = c[6]
    /\ ffMode \in FgModes
    /\ bgMode \in BgModes
    /\ Constructed

RenderNoteOn ==
    /\ Len(hist) < MaxRenderOps
    /\ \E cn \in {<<1, 36>>, <<16, 60>>} : NoteOnCall(cn[1], cn[2], 100)

RenderNoteOff ==
    /\ Len(hist) < MaxRenderOps
    /\ NoteOffCall(1, 36, 0)

RenderTwin ==
    /\ Len(hist) < MaxRenderOps
    /\ TwinHistory

RenderRender ==
    /\ Len(hist) < MaxRenderOps
    /\ RenderCall

NextRender == RenderNoteOn \/ RenderNoteOff \/ RenderTwin \/ RenderRender

SpecRender == InitRender /\ [][NextRender]_vars

(***************************************************************************)
(* SpecCC: one call of handleControlChange or setCC, over the whole value   *)
(* range 0..127 and over valid and invalid controller numbers, applied to   *)
(* an engine whose parameters control changes have set and that holds a     *)
(* note.                                                                    *)
(***************************************************************************)

CallChannels == {0, 16}

CallControls == (0..17) \cup {127, 255}

CallCCNumbers == (-2..17) \cup {-255, -241, 255, 256, 257, 271, 272, 513}

CallValues == 0..127

InitCC ==
    /\ \E g \in Geometries :
        /\ ffLedStart = g[1]
        /\ ffLedLength = g[2]
        /\ lines = g[3]
        /\ cAmp = g[4]
        /\ pan = g[5]
        /\ bgLedStart = g[6]
        /\ bgLedLength = g[7]
    /\ \E c \in Colours :
        /\ ffHue = c[1]
        /\ ffSat = c[2]
        /\ ffBright = c[3]
        /\ bgHue = c[4]
        /\ bgSat = c[5]
        /\ bgBright = c[6]
    /\ ffMode \in {0, 5}
    /\ bgMode = 2
    /\ activeNotes = [n \in 0..127 |-> IF n = 36 THEN 100 ELSE 0]
    /\ currentNote = [c \in 0..16 |-> IF c = 1 THEN 36 ELSE 0]
    /\ lineOffset = 0
    /\ frameCounter = 0
    /\ leds = [i \in 0..(numLeds - 1) |-> checkerboard(i, 200)]
    /\ background = [i \in 0..(numLeds - 1) |-> HSVColor(0, 0, 0)]
    /\ twin = [leds |-> leds, background |-> background, lineOffset |-> lineOffset]
    /\ hist = << >>

CallControlChange ==
    /\ hist = << >>
    /\ \E channel \in CallChannels, control \in CallControls, value \in CallValues :
            ControlChangeCall(channel, control, value)

CallSetCC ==
    /\ hist = << >>
    /\ \E ccNumber \in CallCCNumbers, value \in CallValues : SetCCCall(ccNumber, value)

NextCC == CallControlChange \/ CallSetCC

SpecCC == InitCC /\ [][NextCC]_vars

(***************************************************************************)
(* Claims                                                                   *)
(***************************************************************************)

\* The 15 parameters in the order of their controller numbers 1..15, as the
\* fixed CC-to-field mapping lists them.
CCFields ==
    <<ffHue, ffSat, ffBright, ffLedStart, ffLedLength, ffMode, lines,
      cAmp, bgMode, pan, bgHue, bgSat, bgBright, bgLedStart, bgLedLength>>

\* What a control change stores: twice the value in the six hue, saturation
\* and brightness fields, the value itself in the others.
CCStored(control, value) ==
    IF control \in {1, 2, 3, 11, 12, 13} THEN 2 * value ELSE value

\* C1: handleControlChange(channel, control, value) with control in 1..15 and
\* value in 0..127 sets the field the mapping gives to control (to 2*value
\* for hue/sat/bright, to value otherwise), whatever the channel, and leaves
\* every other parameter, activeNotes, currentNote, frameCounter and the LED
\* buffer as they were.
C1_ControlChangeSetsMappedField ==
    [][\A control \in 1..15 :
          (/\ LastCall'.op = "handleControlChange"
           /\ LastCall'.b = control
           /\ LastCall'.c \in 0..127)
          => /\ CCFields' = [CCFields EXCEPT ![control] = CCStored(control, LastCall'.c)]
             /\ UNCHANGED <<activeNotes, currentNote, frameCounter, leds>>]_vars

\* A control change of bgSat to 127 on channel 16 has stored 254.
C1_Witness ==
    /\ LastCall = Op("handleControlChange", 16, 12, 127)
    /\ bgSat = 254
    /\ ffSat = 200 \/ ffSat = 254

\* C2: handleControlChange with control 0 or above 15 changes nothing: the
\* parameters, activeNotes, currentNote, frameCounter and the LED buffer are
\* as before, for every channel and value.
C2_UnknownControlIsNoOp ==
    [][(/\ LastCall'.op = "handleControlChange"
        /\ LastCall'.b \notin 1..15)
       => UNCHANGED <<CCFields, activeNotes, currentNote, frameCounter, leds>>]_vars

\* Control 16, one past the last mapped controller, has been handled.
C2_Witness ==
    /\ LastCall = Op("handleControlChange", 0, 16, 127)
    /\ bgLedLength # 127

\* C3: setCC(ccNumber, value) with ccNumber outside 1..15 changes no
\* parameter, and getCC(ccNumber) is 0 for it.
C3_SetCCOutsideRangeIsNoOp ==
    [][\A n \in CallCCNumbers \ (1..15) :
          (/\ LastCall'.op = "setCC"
           /\ LastCall'.b = n)
          => /\ UNCHANGED CCFields
             /\ getCC(n)' = 0]_vars

\* C4: for cc in 1..15 and value in 0..127, after setCC(cc, value) getCC(cc)
\* is value, and getCC of every other number is what it was before.
C4_SetThenGetRoundTrips ==
    [][\A n \in 1..15 :
          (/\ LastCall'.op = "setCC"
           /\ LastCall'.b = n
           /\ LastCall'.c \in 0..127)
          => /\ getCC(n)' = LastCall'.c
             /\ \A o \in (CallCCNumbers \cup (1..15)) \ {n} : getCC(o)' = getCC(o)]_vars

\* setCC(3, 127) has been called: the brightness is stored doubled and read
\* back halved.
C4_Witness ==
    /\ LastCall = Op("setCC", 0, 3, 127)
    /\ ffBright = 254
    /\ getCC(3) = 127

\* C5: in every state reached from construction by control changes, setCC,
\* note events and renders with values in 0..127, the six hue, saturation and
\* brightness fields are even and within 0..254.
C5_HsvFieldsEven ==
    \A x \in {ffHue, ffSat, ffBright, bgHue, bgSat, bgBright} :
        x \in 0..254 /\ x % 2 = 0

\* A control change and a setCC have both stored a doubled value.
C5_Witness ==
    /\ Len(hist) = 2
    /\ Recent(2) = Op("handleControlChange", 16, 1, 127)
    /\ Recent(1) = Op("setCC", 0, 12, 100)
    /\ ffHue = 254
    /\ bgSat = 200

\* The colour the claims about mode 0 expect on a channel with a held note.
LitColour == [h |-> ffHue, s |-> ffSat, v |-> ffBright]

\* The default colour of position i of a channel's group of six: hue 80 on
\* even and 100 on odd positions, saturation 200, value ffBright.
DimColour(i) == [h |-> IF i % 2 = 0 THEN 80 ELSE 100, s |-> 200, v |-> ffBright]

\* The six LEDs of channel c show the colours col(0) .. col(5).
ChannelShows(c, col(_)) ==
    \A i \in 0..5 : leds[CHANNEL_TO_LED(c, i)] = col(i)

ShowsLit(i) == LitColour

\* C6: in mode 0, for c in 1..16, n in 0..127 and vel in 1..127, after
\* handleNoteOn(c, n, vel) and render() the six LEDs of channel c show
\* (ffHue, ffSat, ffBright); after a further handleNoteOff(c, n) and render()
\* they show the default checkerboard.
C6_NoteLightsChannel ==
    /\ (/\ ffMode = 0
        /\ Recent(2).op = "handleNoteOn"
        /\ Recent(2).a \in 1..16
        /\ Recent(2).b \in 0..127
        /\ Recent(2).c \in 1..127
        /\ Recent(1).op = "render")
       => ChannelShows(Recent(2).a, ShowsLit)
    /\ (/\ ffMode = 0
        /\ Recent(4).op = "handleNoteOn"
        /\ Recent(4).a \in 1..16
        /\ Recent(4).b \in 0..127
        /\ Recent(4).c \in 1..127
        /\ Recent(3).op = "render"
        /\ Recent(2).op = "handleNoteOff"
        /\ Recent(2).a = Recent(4).a
        /\ Recent(2).b = Recent(4).b
        /\ Recent(1).op = "render")
       => ChannelShows(Recent(4).a, DimColour)

\* The calls k+2, k+1 and k back were: on one channel in 1..16 a note a
\* pressed, then another note b in 1..127 pressed, then note a released.
StaleNoteOff(k) ==
    /\ Recent(k + 2).op = "handleNoteOn"
    /\ Recent(k + 1).op = "handleNoteOn"
    /\ Recent(k).op = "handleNoteOff"
    /\ Recent(k + 2).a \in 1..16
    /\ Recent(k + 1).a = Recent(k + 2).a
    /\ Recent(k).a = Recent(k + 2).a
    /\ Recent(k + 1).b \in 1..127
    /\ Recent(k + 1).b # Recent(k + 2).b
    /\ Recent(k).b = Recent(k + 2).b

\* The stale note-off left the newer note in place, and the frame rendered
\* after it shows the channel lit in mode 0.
NewerNoteKept ==
    /\ StaleNoteOff(1) => currentNote[Recent(2).a] = Recent(2).b
    /\ (StaleNoteOff(2) /\ Recent(1).op = "render" /\ ffMode = 0)
       => ChannelShows(Recent(3).a, ShowsLit)

\* C7: a stale note-off never erases a newer note. After handleNoteOn(c, a),
\* handleNoteOn(c, b), handleNoteOff(c, a) with a # b and b in 1..127,
\* currentNote[c] is b and in mode 0 the channel is still lit. Every
\* handleNoteOff(c, n) sets activeNotes[n] to 0, clears currentNote[c] only
\* when it equals n, and leaves every other channel's entry alone.
C7_StaleNoteOffKeepsNewerNote ==
    [][/\ NewerNoteKept'
       /\ (/\ LastCall'.op = "handleNoteOff"
           /\ LastCall'.a \in 1..16
           /\ LastCall'.b \in 0..127)
          => LET c == LastCall'.a
                 n == LastCall'.b
             IN  /\ activeNotes'[n] = 0
                 /\ \A m \in (0..127) \ {n} : activeNotes'[m] = activeNotes[m]
                 /\ currentNote'[c] = (IF currentNote[c] = n THEN 0 ELSE currentNote[c])
                 /\ \A d \in (0..16) \ {c} : currentNote'[d] = currentNote[d]]_vars

\* Note 36 then note 60 were pressed on channel 1, 36 was released, and the
\* rendered frame still shows channel 1 lit for note 60.
C7_Witness ==
    /\ StaleNoteOff(2)
    /\ Recent(1).op = "render"
    /\ Recent(4).a = 1
    /\ Recent(4).b = 36
    /\ Recent(3).b = 60
    /\ currentNote[1] = 60
    /\ activeNotes[36] = 0
    /\ ffMode = 0
    /\ ChannelShows(1, ShowsLit)

\* C8: in mode 5 every handleNoteOn, whatever its channel, note and velocity,
\* advances ffLedStart by one and wraps it to 0 at 127, so the result is in
\* 0..126 and from 126 it is 0; in every other mode handleNoteOn leaves
\* ffLedStart alone.
C8_NoteOnAdvancesStart ==
    [][LastCall'.op = "handleNoteOn"
       => /\ ffMode = 5
             => /\ ffLedStart' = (IF ffLedStart + 1 = 127 \/ ffLedStart = 127
                                  THEN 0 ELSE ffLedStart + 1)
                /\ ffLedStart' \in 0..126
          /\ ffMode # 5 => ffLedStart' = ffLedStart]_vars

\* Mode 5 was selected, the start set to 126, and a note-on on the unmapped
\* channel 17 wrapped the start to 0.
C8_Witness ==
    /\ hist = <<Op("handleControlChange", 1, 6, 5),
                Op("handleControlChange", 1, 4, 126),
                Op("handleNoteOn", 17, 36, 100)>>
    /\ ffMode = 5
    /\ ffLedStart = 0

\* C9: render() rewrites every entry of the LED buffer, so the buffer after
\* a render depends only on the parameters, currentNote and frameCounter: a
\* second engine with a different history but the same parameters,
\* currentNote and frameCounter has the same buffer after its render.
C9_RenderIgnoresOldBuffer ==
    LastCall.op = "render" => leds = twin.leds

\* The second engine's buffers were made to differ, then both engines
\* rendered three moving dots lines over a rainbow background: a foreground
\* that writes only a few LEDs.
C9_Witness ==
    /\ Recent(2).op = "twin"
    /\ Recent(1).op = "render"
    /\ ffMode = 2
    /\ lines = 3
    /\ ffLedLength = 5
    /\ bgMode = 1
    /\ twin.lineOffset = 36
    /\ leds = twin.leds

\* C10: in every state with ffMode # 7, two render() calls with nothing
\* between them give the same LED buffer.
C10_RenderTwiceSameBuffer ==
    [][(/\ LastCall.op = "render"
        /\ LastCall'.op = "render"
        /\ Len(hist') = Len(hist) + 1
        /\ ffMode # 7)
       => leds' = leds]_vars

\* Two renders in a row of the note-advanced lines of mode 5 over a sinusoid
\* background; the frame counter has advanced twice.
C10_Witness ==
    /\ Recent(2).op = "render"
    /\ Recent(1).op = "render"
    /\ ffMode = 5
    /\ lines = 3
    /\ bgMode = 2
    /\ frameCounter = 2
    /\ leds # background

(***************************************************************************)
(* SpecFrame: one render() of an engine whose parameters control changes    *)
(* have set, the parameters swept over the ranges the renderers' cases      *)
(* depend on.                                                               *)
(***************************************************************************)

\* The parameters as the constructor leaves them.
Defaults ==
    [ffHue |-> 0, ffSat |-> 200, ffBright |-> 200, ffLedStart |-> 0,
     ffLedLength |-> 0, ffMode |-> 0, lines |-> 0, cAmp |-> 0, bgMode |-> 0,
     pan |-> 64, bgHue |-> 0, bgSat |-> 200, bgBright |-> 0, bgLedStart |-> 0,
     bgLedLength |-> 0]

\* Both layers coloured, so that neither is black or equal to the other.
Coloured ==
    [Defaults EXCEPT !.ffHue = 250, !.ffSat = 254, !.ffBright = 100,
                     !.bgHue = 128, !.bgSat = 60, !.bgBright = 254]

\* Every mode selector a control change can store, the other layer in a
\* valid and in an unknown mode.
ModeSweep ==
    { [Coloured EXCEPT !.bgMode = b, !.ffMode = f, !.ffLedLength = 5, !.lines = 3]
        : b \in 0..127, f \in {1, 2, 10} }
    \cup
    { [Coloured EXCEPT !.bgMode = b, !.ffMode = f, !.ffLedLength = 5, !.lines = 3]
        : b \in {1, 3}, f \in 0..127 }

\* Every hue a control change can store, for the rainbow as background
\* under a foreground that paints nothing and for the rainbow as foreground.
WheelSweep ==
    { [Coloured EXCEPT !.bgMode = 1, !.ffMode = 10, !.bgHue = 2 * v] : v \in 0..127 }
    \cup
    { [Coloured EXCEPT !.bgMode = b, !.ffMode = 1, !.ffHue = 2 * v]
        : v \in 0..127, b \in {0, 1} }

\* <<lines, ffLedLength>>: one comet and several, of length 1 and longer,
\* apart, touching, overlapping, wrapping round the strip and stacked on
\* one another (lines > numLeds).
CometShapes ==
    { <<1, 1>>, <<1, 2>>, <<1, 108>>, <<1, 109>>, <<1, 127>>, <<2, 54>>,
      <<2, 55>>, <<3, 5>>, <<3, 36>>, <<4, 27>>, <<54, 2>>, <<108, 1>>,
      <<127, 1>>, <<127, 2>> }

CometSweep ==
    { [Coloured EXCEPT !.ffMode = 3, !.bgMode = 1, !.ffBright = b,
                       !.ffLedStart = st, !.lines = sh[1], !.ffLedLength = sh[2]]
        : b \in {0, 2, 100, 254}, st \in {0, 50, 107, 127}, sh \in CometShapes }

\* Pans that put the wave's middle at the ends of its range, at the default
\* and either side of the last in-band position (tMiddle = 71 at pan 107).
WavePans == {0, 1, 20, 40, 63, 64, 65, 90, 107, 108, 126, 127}

\* Lengths giving every amplitude ffLedLength / 2 in 0..63.
WaveLengths == {0, 1, 127} \cup { 2 * a : a \in 1..63 }

\* Both wave modes over those pans and lengths.
WaveSweep ==
    { [Coloured EXCEPT !.ffMode = f, !.bgMode = 1, !.pan = pn, !.ffLedLength = len]
        : f \in {8, 9}, pn \in WavePans, len \in WaveLengths }

\* The line, block and sinusoid modes with no lines, no length, neither
\* and both, over each background.
DegenerateSweep ==
    { [Coloured EXCEPT !.ffMode = f, !.bgMode = b, !.lines = ll[1],
                       !.ffLedLength = ll[2], !.ffLedStart = 100, !.cAmp = 100]
        : f \in 2..6, b \in 0..2,
          ll \in { <<0, 0>>, <<0, 5>>, <<0, 127>>, <<3, 0>>, <<127, 0>>, <<3, 5>> } }

\* Both colour sinusoids over periods 0, 1 and longer, with and without
\* amplitude and start offset.
SinusoidSweep ==
    { [Coloured EXCEPT !.ffMode = f, !.bgMode = 2, !.ffLedLength = len,
                       !.bgLedLength = len, !.ffLedStart = st, !.bgLedStart = st,
                       !.cAmp = amp]
        : f \in {6, 10}, len \in {0, 1, 64, 127}, st \in {0, 127}, amp \in {0, 127} }

\* The sinusoid background under a foreground that paints nothing: hues at
\* both ends of the range, amplitudes from none to the largest a control
\* change stores, periods 0, 1, odd, a table length, a strip length and 127.
BackgroundSinusoidSweep ==
    { [Coloured EXCEPT !.ffMode = 10, !.bgMode = 2, !.bgHue = h, !.cAmp = amp,
                       !.bgLedStart = st, !.bgLedLength = len]
        : h \in {0, 128, 254}, amp \in {0, 1, 50, 127}, st \in {0, 1, 63, 127},
          len \in {0, 1, 2, 27, 64, 108, 127} }

\* Moving Dots over the comets' shapes and starts.
DotSweep ==
    { [Coloured EXCEPT !.ffMode = 2, !.bgMode = 1, !.ffLedStart = st,
                       !.lines = sh[1], !.ffLedLength = sh[2]]
        : st \in {0, 50, 107, 127}, sh \in CometShapes }

\* Back-and-forth over every block width a control change can store.
BlockSweep ==
    { [Coloured EXCEPT !.ffMode = 4, !.bgMode = 1, !.ffLedStart = st,
                       !.ffLedLength = len]
        : st \in {0, 1, 50, 127}, len \in 0..127 }

FrameParams ==
    ModeSweep \cup WheelSweep \cup CometSweep \cup WaveSweep \cup DegenerateSweep
    \cup SinusoidSweep \cup BackgroundSinusoidSweep \cup DotSweep \cup BlockSweep

InitFrame ==
    /\ \E p \in FrameParams :
        /\ ffHue = p.ffHue
        /\ ffSat = p.ffSat
        /\ ffBright = p.ffBright
        /\ ffLedStart = p.ffLedStart
        /\ ffLedLength = p.ffLedLength
        /\ ffMode = p.ffMode
        /\ lines = p.lines
        /\ cAmp = p.cAmp
        /\ bgMode = p.bgMode
        /\ pan = p.pan
        /\ bgHue = p.bgHue
        /\ bgSat = p.bgSat
        /\ bgBright = p.bgBright
        /\ bgLedStart = p.bgLedStart
        /\ bgLedLength = p.bgLedLength
    /\ Constructed

FrameRender ==
    /\ hist = << >>
    /\ RenderCall

NextFrame == FrameRender

SpecFrame == InitFrame /\ [][NextFrame]_vars

\* The flat fill of the background layer's colour.
FlatColour == [h |-> bgHue, s |-> bgSat, v |-> bgBright]

\* C11: with bgMode in 3..127 the background pass fills every LED with
\* (bgHue, bgSat, bgBright); with ffMode in 10..127 the foreground writes no
\* LED, so the buffer after render() is the background pass output.
C11_UnknownModesFallBack ==
    LastCall.op = "render"
    => /\ bgMode \in 3..127 => \A i \in 0..(numLeds - 1) : background[i] = FlatColour
       /\ ffMode \in 10..127 => leds = background

\* A frame rendered with both selectors out of range: flat everywhere, and
\* no longer the constructor's checkerboard.
C11_Witness ==
    /\ LastCall.op = "render"
    /\ bgMode = 3
    /\ ffMode = 127
    /\ leds = background
    /\ leds[0] = FlatColour
    /\ leds[107] = FlatColour

\* The buffer is a rainbow wheel from hue: LED 0 at hue mod 256, each next
\* LED floor(255 / numLeds) further mod 256, all at sat and bright.
IsWheel(buf, hue, sat, bright) ==
    /\ buf[0].h = hue % 256
    /\ \A i \in 0..(numLeds - 2) : buf[i + 1].h = (buf[i].h + (255 \div numLeds)) % 256
    /\ \A i \in 0..(numLeds - 1) : buf[i].s = sat /\ buf[i].v = bright

\* C12: the rainbow wheel as background (bgMode 1 under a foreground that
\* paints nothing) and as foreground (ffMode 1) puts hue mod 256 on LED 0 and
\* steps the hue by floor(255 / numLeds) = 2 mod 256 from each LED to the
\* next, with the layer's saturation and brightness on every LED.
C12_RainbowWheelSteps ==
    LastCall.op = "render"
    => /\ (bgMode = 1 /\ ffMode \in 10..127) => IsWheel(leds, bgHue, bgSat, bgBright)
       /\ ffMode = 1 => IsWheel(leds, ffHue, ffSat, ffBright)

\* A background wheel from hue 254 under foreground mode 10; the hue wraps
\* from 254 on LED 0 to 0 on LED 1 and has come round to 212 on LED 107.
C12_Witness ==
    /\ LastCall.op = "render"
    /\ bgMode = 1
    /\ ffMode = 10
    /\ bgHue = 254
    /\ leds[0].h = 254
    /\ leds[1].h = 0
    /\ leds[107].h = 212

\* The LED comet number line paints first, its trailing LED, and the one it
\* paints last, its leading LED.
TrailingLED(line) == (ffLedStart + line * (numLeds \div lines)) % numLeds

LeadingLED(line) == (ffLedStart + ffLedLength - 1 + line * (numLeds \div lines)) % numLeds

\* C13 as stated: in mode 3 with lines >= 1 and ffLedLength = L >= 1, after
\* render() the trailing LED of the comet has brightness ffBright / L and,
\* when L > 1, is strictly darker than the leading LED, for every ffBright
\* in 0..254, ffLedStart in 0..127, L in 1..127 and lines in 1..127.
C13_CometTailDimmerAlways ==
    (LastCall.op = "render" /\ ffMode = 3 /\ lines >= 1 /\ ffLedLength >= 1)
    => /\ leds[TrailingLED(0)].v = ffBright \div ffLedLength
       /\ ffLedLength > 1 => leds[TrailingLED(0)].v < leds[LeadingLED(0)].v

\* C13, amended: in mode 3 with lines >= 1 and comets of length L >= 1 that
\* do not overlap (L <= numLeds / lines), after render() the trailing LED of
\* every comet has brightness ffBright / L and the leading LED has ffBright;
\* when L > 1 and ffBright > 0 the trailing LED is strictly darker.
C13_CometTailDimmer ==
    (/\ LastCall.op = "render"
     /\ ffMode = 3
     /\ lines >= 1
     /\ ffLedLength >= 1
     /\ ffLedLength <= numLeds \div lines)
    => \A line \in 0..(lines - 1) :
          /\ leds[TrailingLED(line)].v = ffBright \div ffLedLength
          /\ leds[LeadingLED(line)].v = ffBright
          /\ (ffLedLength > 1 /\ ffBright > 0)
             => leds[TrailingLED(line)].v < leds[LeadingLED(line)].v

\* Three comets of five LEDs from LED 50 at brightness 100: tails at 20,
\* heads at 100.
C13_Witness ==
    /\ LastCall.op = "render"
    /\ ffMode = 3
    /\ lines = 3
    /\ ffLedLength = 5
    /\ ffLedStart = 50
    /\ ffBright = 100
    /\ leds[50].v = 20
    /\ leds[54].v = 100
    /\ leds[86].v = 20
    /\ leds[14].v = 20

\* The indices renderOceanWaves passes to setLED as tMiddle + p and
\* tMiddle - p: the first two calls of each pass.
OceanDirectIndices ==
    { renderOceanWaves[k].index : k \in { n \in DOMAIN renderOceanWaves : (n - 1) % 4 < 2 } }

\* C14: in Ocean Waves (ffMode 8), for every pan and ffLedLength in 0..127,
\* every index painted directly as tMiddle + p or tMiddle - p lies within
\* 24..71.
C14_OceanWavesStayInBand ==
    (LastCall.op = "render" /\ ffMode = 8)
    => \A idx \in OceanDirectIndices : idx \in 24..71

\* C15 as stated: the 48-entry mirror map the wave modes render through is
\* an involution, mirror(mirror(j)) = j for every valid index j, with image
\* within 72..95 for j in 0..23 and within 0..23 for j in 24..47.
C15_MirrorMapInvolution ==
    (LastCall.op = "render" /\ ffMode \in {8, 9})
    =>
    /\ \A j \in 0..47 :
          /\ TOP_BOTTOM_MIRROR_MAP(j) \in 0..47
          /\ TOP_BOTTOM_MIRROR_MAP(TOP_BOTTOM_MIRROR_MAP(j)) = j
    /\ \A j \in 0..23 : TOP_BOTTOM_MIRROR_MAP(j) \in 72..95
    /\ \A j \in 24..47 : TOP_BOTTOM_MIRROR_MAP(j) \in 0..23

\* C15, amended: on indices 0..23 the mirror map the wave modes render
\* through is the involution j -> 23 - j, with image 0..23; on indices
\* 24..47 it is j -> 119 - j, one to one onto 72..95, whose values are LED
\* numbers and not indices of the map.
C15_MirrorMapHalves ==
    (LastCall.op = "render" /\ ffMode \in {8, 9})
    =>
    /\ \A j \in 0..23 :
          /\ TOP_BOTTOM_MIRROR_MAP(j) = 23 - j
          /\ TOP_BOTTOM_MIRROR_MAP(j) \in 0..23
          /\ TOP_BOTTOM_MIRROR_MAP(TOP_BOTTOM_MIRROR_MAP(j)) = j
    /\ \A j \in 24..47 :
          /\ TOP_BOTTOM_MIRROR_MAP(j) = 119 - j
          /\ TOP_BOTTOM_MIRROR_MAP(j) \in 72..95
    /\ { TOP_BOTTOM_MIRROR_MAP(j) : j \in 24..47 } = 72..95

\* An ocean wave around LED 43 of amplitude 19 has been mirrored through
\* both halves of the map: index 19 to LED 4 at full brightness, index 14 to
\* LED 9 and index 24 to LED 95 five steps down the ramp.
C15_Witness ==
    /\ LastCall.op = "render"
    /\ ffMode = 8
    /\ pan = 40
    /\ ffLedLength = 126
    /\ ffBright = 100
    /\ leds[4].v = 100
    /\ leds[9].v = 73
    /\ leds[95].v = 73

\* The six LEDs of channel c's group.
ChannelGroup(c) == { CHANNEL_TO_LED(c, i) : i \in 0..5 }

\* The LEDs in none of the 16 groups.
Ungrouped == {0, 25, 26, 27, 28, 53, 54, 79, 80, 81, 82, 107}

\* C16: in mode 0 with 108 LEDs, after any note events on any channels,
\* channel 0 included, render() leaves LED 0 and the other LEDs outside the
\* 16 channel groups (0, 25..28, 53, 54, 79..82, 107) as the background pass
\* made them; the 16 groups are pairwise disjoint and each shows its own
\* channel's note state.
C16_RowZeroNeverRendered ==
    (LastCall.op = "render" /\ ffMode = 0)
    => /\ \A i \in Ungrouped : leds[i] = background[i]
       /\ (0..(numLeds - 1)) \ UNION { ChannelGroup(c) : c \in 1..16 } = Ungrouped
       /\ \A c, d \in 1..16 : c # d => ChannelGroup(c) \cap ChannelGroup(d) = {}
       /\ \A c \in 1..16 :
             IF currentNote[c] # 0
             THEN ChannelShows(c, ShowsLit)
             ELSE ChannelShows(c, DimColour)

\* Notes were pressed on channel 0 and on channel 16 and a frame rendered:
\* LED 0 is background, channel 16 is lit, channel 1 shows the checkerboard.
C16_Witness ==
    /\ Recent(3) = Op("handleNoteOn", 0, 36, 100)
    /\ Recent(2) = Op("handleNoteOn", 16, 36, 100)
    /\ Recent(1).op = "render"
    /\ ffMode = 0
    /\ activeNotes[36] = 100
    /\ leds[0] = background[0]
    /\ leds[0] = [h |-> 0, s |-> 200, v |-> 0]
    /\ ChannelShows(16, ShowsLit)
    /\ ChannelShows(1, DimColour)

\* The parameters the claim calls degenerate: no lines in modes 2, 3, 5; no
\* length in modes 2..6; a clamped amplitude of 0 or less in modes 8 and 9,
\* of which ffLedLength <= 1 and pan = 127 are given as cases.
Degenerate ==
    \/ ffMode \in {2, 3, 5} /\ lines = 0
    \/ ffMode \in {2, 3, 4, 5, 6} /\ ffLedLength = 0
    \/ ffMode = 8 /\ oceanAmp <= 0
    \/ ffMode = 9 /\ opposingAmp <= 0
    \/ ffMode \in {8, 9} /\ (ffLedLength <= 1 \/ pan = 127)

\* C17: with degenerate parameters the foreground is a no-op: with lines = 0
\* in modes 2, 3, 5, with ffLedLength = 0 in modes 2..6, and with a clamped
\* amplitude <= 0 in modes 8 and 9 (for example ffLedLength <= 1, or pan =
\* 127), the buffer after render() is the background pass output.
C17_DegenerateIsNoOp ==
    (LastCall.op = "render" /\ Degenerate) => leds = background

\* The divisors and moduli updateBackground evaluates in the present state.
backgroundDivisors ==
    CASE bgMode = 1 -> {numLeds, 256}
      [] bgMode = 2 -> IF bgLedLength = 0 THEN {} ELSE {bgLedLength, 64, 100, 256}
      [] OTHER -> {}

\* The divisors and moduli renderForeground evaluates in the present state:
\* those past the early return of the mode's renderer.
foregroundDivisors ==
    CASE ffMode = 1 -> {numLeds, 256}
      [] ffMode = 2 -> IF lines = 0 THEN {} ELSE {lines, numLeds}
      [] ffMode = 3 -> IF cometsReturns THEN {} ELSE {lines, numLeds, ffLedLength}
      [] ffMode = 4 -> IF ffLedLength = 0 THEN {} ELSE {numLeds}
      [] ffMode = 5 -> IF lines = 0 THEN {} ELSE {lines, numLeds, 256}
      [] ffMode = 6 -> IF ffLedLength = 0 THEN {} ELSE {ffLedLength, 64, 100, 256}
      [] ffMode = 7 -> {numLeds}
      [] ffMode = 8 -> {127, 2, 4} \cup (IF oceanAmp <= 0 THEN {} ELSE {oceanAmp})
      [] ffMode = 9 -> {127, 2, 4} \cup (IF opposingAmp <= 0 THEN {} ELSE {opposingAmp})
      [] OTHER -> {}

\* C18: with 108 LEDs, in every state control changes with values 0..127
\* and note events reach, render() divides and takes remainders by nonzero
\* values only: lines, ffLedLength, bgLedLength and the clamped amplitude
\* are nonzero where they are used as divisors.
C18_NoDivisionByZero ==
    0 \notin (backgroundDivisors \cup foregroundDivisors)

\* Frames were rendered where each guarded divisor is zero: comets without
\* length over a sinusoid background without period, leaving the flat fill.
C18_Witness ==
    /\ LastCall.op = "render"
    /\ ffMode = 3
    /\ lines = 3
    /\ ffLedLength = 0
    /\ bgMode = 2
    /\ bgLedLength = 0
    /\ foregroundDivisors = {}
    /\ leds = background
    /\ leds[0] = FlatColour

\* C19: each part of the state is changed by its owner only. render()
\* raises frameCounter by exactly 1 and changes none of the 15 parameters,
\* activeNotes or currentNote; handleControlChange, handleNoteOn,
\* handleNoteOff, setCC and getCC change neither frameCounter nor the LED
\* buffer.
C19_OwnersOnly ==
    [][/\ LastCall'.op = "render"
          => /\ frameCounter' = frameCounter + 1
             /\ UNCHANGED <<CCFields, activeNotes, currentNote>>
       /\ LastCall'.op \in {"handleControlChange", "handleNoteOn", "handleNoteOff",
                            "setCC", "getCC"}
          => UNCHANGED <<frameCounter, leds>>]_vars

\* A frame was rendered, then a note pressed: the counter stands at 1 and
\* the buffer still shows the frame rendered before the note, channel 1 dim.
C19_Witness ==
    /\ Recent(2).op = "render"
    /\ Recent(1) = Op("handleNoteOn", 1, 60, 100)
    /\ frameCounter = 1
    /\ currentNote[1] = 60
    /\ leds[0] = [h |-> 0, s |-> 200, v |-> 0]
    /\ ChannelShows(1, DimColour)

(***************************************************************************)
(* The desktop library's stateless background renderers                     *)
(***************************************************************************)

\* ctx->params[k], holding the value of CC k+1 that gives the engine its
\* present parameter.
ctxParams(k) == getCC(k + 1)

\* renderFlatBackground(leds, numLeds, ctx) of Modes/Backgrounds.cpp
statelessFlatBackground ==
    LET hue == ctxParams(10) * 2
        sat == ctxParams(11) * 2
        bright == ctxParams(12) * 2
    IN  [i \in 0..(numLeds - 1) |-> HSVColor(hue, sat, bright)]

\* renderRainbowBackground(leds, numLeds, ctx) of Modes/Backgrounds.cpp
statelessRainbowBackground ==
    LET sat == ctxParams(11) * 2
        bright == ctxParams(12) * 2
    IN  [i \in 0..(numLeds - 1) |-> HSVColor(i * rainbowInc, sat, bright)]

\* renderSinusoidBackground(leds, numLeds, ctx) of Modes/Backgrounds.cpp
statelessSinusoidBackground ==
    LET hue == ctxParams(10) * 2
        sat == ctxParams(11) * 2
        bright == ctxParams(12) * 2
        phaseShift == ctxParams(13)
        brightness == ctxParams(14)
        sinePeriod == IF ctxParams(7) = 0 THEN 1 ELSE ctxParams(7)
    IN  [i \in 0..(numLeds - 1) |->
            LET phaseIndex == CMod(CDiv(i * 64, sinePeriod) + phaseShift, 64)
                sinVal == COLOR_PHASE(phaseIndex)
                val == CDiv(sinVal * brightness, 100) + bright
                clamped == IF val < 0 THEN 0 ELSE IF val > 254 THEN 254 ELSE val
            IN  HSVColor(hue, sat, clamped)]

\* renderBackground(modeId, leds, numLeds, ctx) of LightEngineAPI.cpp
renderBackground(modeId) ==
    CASE modeId = 0 -> statelessFlatBackground
      [] modeId = 1 -> statelessRainbowBackground
      [] modeId = 2 -> statelessSinusoidBackground
      [] OTHER -> statelessFlatBackground

\* C20: for every background mode 0..2 and all CC values 0..127, the
\* library's renderBackground(modeId, leds, 108, ctx), with ctx.params[k] the
\* value of CC k+1, fills the same buffer as the engine's background pass
\* run with the same CC values.
C20_BackgroundsAgree ==
    (LastCall.op = "render" /\ bgMode \in 0..2)
    => renderBackground(bgMode) = background

(***************************************************************************)
(* Construction                                                            *)
(***************************************************************************)

\* C21: immediately after construction the foreground is hue 0, saturation
\* 200, brightness 200; bgMode, bgHue, bgSat, bgBright, bgLedStart and
\* bgLedLength are all 0; every activeNotes and currentNote entry is 0;
\* frameCounter is 0; and the LED buffer is the checkerboard, hue 80 on even
\* indices and hue 100 on odd ones, saturation 200, value 200.
C21_ConstructionDefaults ==
    hist = << >> =>
        /\ ffHue = 0 /\ ffSat = 200 /\ ffBright = 200
        /\ bgMode = 0 /\ bgHue = 0 /\ bgSat = 0 /\ bgBright = 0
        /\ bgLedStart = 0 /\ bgLedLength = 0
        /\ \A n \in 0..127 : activeNotes[n] = 0
        /\ \A c \in 0..16 : currentNote[c] = 0
        /\ frameCounter = 0
        /\ \A i \in 0..(numLeds - 1) :
              leds[i] = [h |-> IF i % 2 = 0 THEN 80 ELSE 100, s |-> 200, v |-> 200]

(***************************************************************************)
(* Sinusoid background                                                     *)
(***************************************************************************)

\* a / b for b > 0 with the quotient truncated toward zero.
Truncated(a, b) == IF a >= 0 THEN a \div b ELSE -((-a) \div b)

\* PHASE[((i + bgLedStart) * 64 / bgLedLength) mod 64]
BackgroundPhase(i) ==
    COLOR_PHASE_TABLE[((((i + bgLedStart) * 64) \div bgLedLength) % 64) + 1]

\* C22: with bgMode 2 and bgLedLength = 0 the background is the flat fill;
\* otherwise LED i has hue (256 + bgHue + cAmp * PHASE[...] / 100) mod 256,
\* the product taken first and its quotient by 100 truncated toward zero
\* also when the phase is negative, with saturation bgSat and value
\* bgBright; with cAmp = 0 the background is the flat fill.
C22_SinusoidBackground ==
    (LastCall.op = "render" /\ bgMode = 2) =>
        /\ bgLedLength = 0 => \A i \in 0..(numLeds - 1) : background[i] = FlatColour
        /\ bgLedLength # 0 =>
              \A i \in 0..(numLeds - 1) :
                  background[i] =
                      [h |-> (256 + bgHue + Truncated(cAmp * BackgroundPhase(i), 100)) % 256,
                       s |-> bgSat, v |-> bgBright]
        /\ cAmp = 0 => \A i \in 0..(numLeds - 1) : background[i] = FlatColour

\* Period 64 from LED 0 at full amplitude: LED 32 reads phase -10, the term
\* -1270 / 100 is -12 and not -13, and LED 14 reads phase 100.
C22_Witness ==
    /\ LastCall.op = "render"
    /\ bgMode = 2 /\ bgLedLength = 64 /\ bgLedStart = 0 /\ cAmp = 127 /\ bgHue = 0
    /\ background[32] = [h |-> 244, s |-> 60, v |-> 254]
    /\ background[14] = [h |-> 127, s |-> 60, v |-> 254]
    /\ leds = background

(***************************************************************************)
(* Moving Dots, Back-and-forth, Flash                                      *)
(***************************************************************************)

\* The foreground colour as an LED holds it.
ForegroundColour == [h |-> ffHue, s |-> ffSat, v |-> ffBright]

\* { (ffLedStart + k + line * (numLeds / lines)) mod numLeds }
DotTargets ==
    { (ffLedStart + k + line * (numLeds \div lines)) % numLeds :
        line \in 0..(lines - 1), k \in 0..(ffLedLength - 1) }

\* C23: Moving Dots (ffMode 2) with lines >= 1: after render() the LEDs of
\* { (ffLedStart + k + line * (numLeds / lines)) mod numLeds : 0 <= line <
\* lines, 0 <= k < ffLedLength } hold (ffHue, ffSat, ffBright) and every
\* other LED holds the background pass output.
C23_MovingDotsTargets ==
    (LastCall.op = "render" /\ ffMode = 2 /\ lines >= 1) =>
        \A i \in 0..(numLeds - 1) :
            leds[i] = IF i \in DotTargets THEN ForegroundColour ELSE background[i]

\* Three lines of five dots from LED 107: the first line wraps from 107 to
\* 0..3, the others start 36 and 72 LEDs on, and the LEDs either side of a
\* line show the rainbow background.
C23_Witness ==
    /\ LastCall.op = "render"
    /\ ffMode = 2 /\ lines = 3 /\ ffLedLength = 5 /\ ffLedStart = 107
    /\ \A i \in {107, 0, 3, 35, 39, 71, 75} : leds[i] = ForegroundColour
    /\ \A i \in {106, 4, 34, 40, 70, 76} :
          leds[i] = background[i] /\ leds[i] # ForegroundColour
    /\ DotTargets = {107} \cup (0..3) \cup (35..39) \cup (71..75)

\* The block starts 0, 2L, 4L, ... below numLeds.
BlockStarts == { b \in 0..(numLeds - 1) : b % (2 * ffLedLength) = 0 }

\* { (ffLedStart * L + b + k) mod numLeds }
BlockTargets ==
    { (ffLedStart * ffLedLength + b + k) % numLeds :
        b \in BlockStarts, k \in 0..(ffLedLength - 1) }

\* C24: Back-and-forth (ffMode 4) with ffLedLength = L >= 1: after render()
\* exactly the LEDs { (ffLedStart * L + b + k) mod numLeds : b in {0, 2L,
\* 4L, ...}, b < numLeds, 0 <= k < L } hold (ffHue, ffSat, ffBright), every
\* other LED holds the background value, and the block loop ends after one
\* pass per block start, for every L in 1..127.
C24_BackAndForthBlocks ==
    (LastCall.op = "render" /\ ffMode = 4 /\ ffLedLength >= 1) =>
        /\ \A i \in 0..(numLeds - 1) :
              leds[i] = IF i \in BlockTargets THEN ForegroundColour ELSE background[i]
        /\ Len(renderBackAndForth) = Cardinality(BlockStarts) * ffLedLength

\* Blocks of 5 from offset 1 * 5: LEDs 5..9, 15..19, ..., and the eleventh
\* block, started at 100 < numLeds, wraps from 105..107 to 0..1.
C24_Witness ==
    /\ LastCall.op = "render"
    /\ ffMode = 4 /\ ffLedLength = 5 /\ ffLedStart = 1
    /\ Cardinality(BlockStarts) = 11
    /\ \A i \in {5, 9, 15, 105, 107, 0, 1} : leds[i] = ForegroundColour
    /\ \A i \in {2, 4, 10, 14, 104} :
          leds[i] = background[i] /\ leds[i] # ForegroundColour

\* The LEDs of a buffer that differ from its background.
Painted(buf, bg) == { i \in 0..(numLeds - 1) : buf[i] # bg[i] }

\* C25: Flash (ffMode 7): a render() leaves at most one LED different from
\* the background pass output; the LED painted holds (ffHue, ffSat,
\* ffBright); its index is in [0, numLeds) and is fixed by the number drawn
\* for the frame counter's seed alone, so a second engine with the same
\* frame counter and another call history paints the same index.
C25_FlashPaintsOneSeededLED ==
    (LastCall.op = "render" /\ ffMode = 7) =>
        LET randomLed == LastCall.c % numLeds
        IN  /\ randomLed \in 0..(numLeds - 1)
            /\ Cardinality(Painted(leds, background)) <= 1
            /\ Painted(leds, background) \subseteq {randomLed}
            /\ leds[randomLed] = ForegroundColour
            /\ Painted(twin.leds, twin.background) \subseteq {randomLed}
            /\ twin.leds[randomLed] = ForegroundColour

\* The engine and a second one with another history render, in Flash mode
\* with ffLedStart = 10, the frame whose draw is 32767: both paint LED
\* 32767 mod 108 = 43 and nothing else.
C25_Witness ==
    /\ LastCall = Op("render", 0, 0, 32767)
    /\ Recent(2).op = "twin"
    /\ ffMode = 7 /\ ffLedStart = 10
    /\ Painted(leds, background) = {43}
    /\ Painted(twin.leds, twin.background) = {43}
    /\ leds[43] = ForegroundColour
    /\ frameCounter = 1

(***************************************************************************)
(* The desktop library's stateless Notes-to-Drives renderer                 *)
(***************************************************************************)

\* ctx->midiNotes, holding the velocities the engine's note map holds.
ctxMidiNotes == activeNotes

\* The rows of CHANNEL_TO_LED that renderNotesToDrives(leds, numLeds, ctx) of
\* Modes/NotesToDrives.cpp reads: "channel = noteNum - 36" for each noteNum
\* in 36..52 with a velocity above 0.
statelessNotesToDrivesRows ==
    { noteNum - 36 : noteNum \in { n \in 36..52 : ctxMidiNotes[n] > 0 } }

\* renderNotesToDrives(leds, numLeds, ctx) of Modes/NotesToDrives.cpp, with
\* ctx->background the engine's background buffer.
statelessRenderNotesToDrives ==
    LET hue == ctxParams(0) * 2
        sat == ctxParams(1) * 2
        bright == ctxParams(2) * 2
        lit == { CHANNEL_TO_LED(channel, i) :
                    channel \in statelessNotesToDrivesRows, i \in 0..5 }
    IN  [ledIdx \in 0..(numLeds - 1) |->
            IF ledIdx \in lit /\ ledIdx >= 0 /\ ledIdx < numLeds
            THEN HSVColor(hue, sat, bright)
            ELSE background[ledIdx]]

\* C26: whatever notes ctx.midiNotes reports held, the library's stateless
\* renderNotesToDrives never reads row 0 of the channel->LED table as a
\* channel, and so leaves LED 0 at its background value.
C26_StatelessRowZeroNeverRendered ==
    /\ 0 \notin statelessNotesToDrivesRows
    /\ statelessRenderNotesToDrives[0] = background[0]

(***************************************************************************)
(* The note maps                                                           *)
(***************************************************************************)

\* The position in hist of the most recent handleNoteOn on channel c, 0 when
\* there is none.
LastNoteOn(c) ==
    LET ks == { k \in 1..Len(hist) : hist[k].op = "handleNoteOn" /\ hist[k].a = c }
    IN  IF ks = {} THEN 0 ELSE CHOOSE k \in ks : \A j \in ks : j <= k

\* The most recent handleNoteOn on channel c carried a note in 1..127 and no
\* handleNoteOff of that note on that channel has come since.
HoldsLastNote(c) ==
    /\ LastNoteOn(c) > 0
    /\ hist[LastNoteOn(c)].b \in 1..127
    /\ ~ \E k \in (LastNoteOn(c) + 1)..Len(hist) :
            /\ hist[k].op = "handleNoteOff"
            /\ hist[k].a = c
            /\ hist[k].b = hist[LastNoteOn(c)].b

\* C27: last-note priority. After any sequence of calls, for every channel c
\* in 1..16, currentNote[c] is nonzero exactly when the most recent
\* handleNoteOn on c carried a note n in 1..127 and no handleNoteOff(c, n)
\* has come since, and then currentNote[c] = n, whatever else is held on c
\* and whatever happened on other channels.
C27_LastNotePriority ==
    \A c \in 1..16 :
        /\ currentNote[c] # 0 <=> HoldsLastNote(c)
        /\ HoldsLastNote(c) => currentNote[c] = hist[LastNoteOn(c)].b

\* 36 then 60 pressed on channel 1, 36 released, 36 pressed on channel 16:
\* channel 1 holds 60 although 36 was released, channel 16 holds 36 although
\* a note 36 was released on channel 1.
C27_Witness ==
    /\ hist = << Op("handleNoteOn", 1, 36, 100), Op("handleNoteOn", 1, 60, 100),
                 Op("handleNoteOff", 1, 36, 64), Op("handleNoteOn", 16, 36, 100) >>
    /\ currentNote[1] = 60
    /\ currentNote[16] = 36
    /\ HoldsLastNote(1) /\ HoldsLastNote(16)
    /\ \A c \in 2..15 : currentNote[c] = 0

\* Every handleNoteOn so far had a channel in 1..16, a note in 0..127 and a
\* velocity in 1..127.
NoteOnsInRange ==
    \A k \in 1..Len(hist) :
        hist[k].op = "handleNoteOn"
        => hist[k].a \in 1..16 /\ hist[k].b \in 0..127 /\ hist[k].c \in 1..127

\* C28: the two note maps stay consistent. In every state reached by
\* handleNoteOn calls (channel 1..16, note 0..127, velocity 1..127) and
\* handleNoteOff calls, for every channel c, currentNote[c] = n # 0 implies
\* activeNotes[n] # 0.
C28_NoteMapsConsistent ==
    NoteOnsInRange =>
        \A c \in 1..16 : currentNote[c] # 0 => activeNotes[currentNote[c]] # 0

(***************************************************************************)
(* SpecBytes: the engine with parameters that control changes carrying any  *)
(* byte 0..255 set, under one more handler call with bytes at and beyond    *)
(* the MIDI range, then one render().                                       *)
(***************************************************************************)

\* ffLedStart, ffLedLength, lines, cAmp, pan, bgLedStart, bgLedLength as
\* bytes: the largest length on one line and the largest line count at
\* length 1, all zero, and mixtures around 127/128.
ByteGeometries ==
    { <<255, 255, 1, 255, 255, 255, 255>>,
      <<0, 0, 0, 0, 0, 0, 0>>,
      <<255, 1, 255, 255, 0, 255, 1>>,
      <<126, 128, 2, 128, 128, 1, 255>>,
      <<0, 255, 1, 255, 127, 0, 128>>,
      <<255, 2, 108, 1, 255, 0, 64>> }

ByteFgModes == (0..10) \cup {255}

ByteBgModes == {1, 2, 255}

\* The hue, saturation and brightness fields hold twice the byte.
InitBytes ==
    /\ \E g \in ByteGeometries :
        /\ ffLedStart = g[1]
        /\ ffLedLength = g[2]
        /\ lines = g[3]
        /\ cAmp = g[4]
        /\ pan = g[5]
        /\ bgLedStart = g[6]
        /\ bgLedLength = g[7]
    /\ ffHue = 2 * 255
    /\ ffSat = 2 * 128
    /\ ffBright = 2 * 255
    /\ bgHue = 2 * 255
    /\ bgSat = 2 * 1
    /\ bgBright = 2 * 128
    /\ ffMode \in ByteFgModes
    /\ bgMode \in ByteBgModes
    /\ Constructed

\* <<channel, note>>: each at and either side of the ends of its range.
ByteNoteInputs ==
    { <<0, 128>>, <<1, 0>>, <<1, 255>>, <<16, 127>>, <<16, 128>>, <<17, 127>>,
      <<255, 255>> }

\* <<control, value>>
ByteCCInputs ==
    { <<0, 255>>, <<4, 255>>, <<6, 8>>, <<10, 255>>, <<255, 255>> }

BytesNoteOn ==
    /\ hist = << >>
    /\ \E cn \in ByteNoteInputs : NoteOnCall(cn[1], cn[2], 255)

BytesNoteOff ==
    /\ hist = << >>
    /\ \E cn \in {<<1, 128>>, <<16, 0>>, <<255, 127>>} : NoteOffCall(cn[1], cn[2], 0)

BytesControlChange ==
    /\ hist = << >>
    /\ \E cv \in ByteCCInputs : ControlChangeCall(255, cv[1], cv[2])

BytesRender ==
    /\ \A k \in DOMAIN hist : hist[k].op # "render"
    /\ RenderCall

NextBytes == BytesNoteOn \/ BytesNoteOff \/ BytesControlChange \/ BytesRender

SpecBytes == InitBytes /\ [][NextBytes]_vars

(***************************************************************************)
(* Indices of the array accesses                                           *)
(***************************************************************************)

\* The indices at which the setLED calls of the frame write leds: those
\* that pass setLED's bounds check.
ledWrites(rnd) ==
    LET ws == foregroundCalls(rnd)
    IN  { ws[k].index : k \in { j \in DOMAIN ws : ws[j].index # NoLED /\ setLED(ws[j].index) } }

\* The indices the background renderers and the memcpy write:
\* "for (int i = 0; i < numLeds; i++)".
backgroundIndices == 0..(numLeds - 1)

\* The indices at which the frame reads COLOR_PHASE.
phaseReads ==
    (IF bgMode = 2 /\ bgLedLength # 0
     THEN { cphaseIdx(i, bgLedStart, bgLedLength) : i \in 0..(numLeds - 1) }
     ELSE {})
    \cup
    (IF ffMode = 6 /\ ffLedLength # 0
     THEN { cphaseIdx(i, ffLedStart, ffLedLength) : i \in 0..(numLeds - 1) }
     ELSE {})

\* The indices at which the wave renderers read TOP_BOTTOM_MIRROR_MAP: the
\* arguments base + p - 24 and base - p - 24 that pass the guard.
mirrorReads ==
    LET passes == CASE ffMode = 8 /\ oceanAmp > 0 -> oceanAmp
                    [] ffMode = 9 /\ opposingAmp > 0 -> opposingAmp + 1
                    [] OTHER -> 0
        base == IF ffMode = 8 THEN waveMiddle ELSE numLeds - waveMiddle
        args == { base + p - 24 : p \in 0..(passes - 1) }
                \cup { base - p - 24 : p \in 0..(passes - 1) }
    IN  { j \in args : mirrorGuard(j) }

\* The rows of CHANNEL_TO_LED the engine's renderNotesToDrives reads.
channelRows ==
    IF ffMode = 0 THEN { 1 + ((k - 1) \div 6) : k \in DOMAIN renderNotesToDrives } ELSE {}

\* The indices at which a note handler writes activeNotes and currentNote.
activeNotesWrites(note) == IF noteInRange(note) THEN {note} ELSE {}

currentNoteWrites(channel) == IF channelInRange(channel) THEN {channel} ELSE {}

\* C29: memory safety with numLeds = 108. For all channel, note, velocity,
\* control and value bytes 0..255 and all parameter values they reach,
\* render() writes the LED and background buffers at indices in [0,
\* numLeds) only, reads the phase table at indices in 0..63, the mirror map
\* at indices in 0..47 and the channel->LED table at rows 1..16, and the
\* note handlers write activeNotes at indices in 0..127 and currentNote at
\* indices in 1..16.
C29_AccessesInBounds ==
    /\ LastCall.op = "render"
       => /\ ledWrites(LastCall.c) \subseteq 0..(numLeds - 1)
          /\ backgroundIndices \subseteq 0..(numLeds - 1)
          /\ phaseReads \subseteq 0..63
          /\ mirrorReads \subseteq 0..47
          /\ channelRows \subseteq 1..16
    /\ LastCall.op \in {"handleNoteOn", "handleNoteOff"}
       => /\ activeNotesWrites(LastCall.b) \subseteq 0..127
          /\ currentNoteWrites(LastCall.a) \subseteq 1..16

\* Ocean waves at pan 255 and length 255: the middle is LED 133, past the
\* end of the strip, and the clamp leaves amplitude 109, so setLED is called
\* with indices up to 241 and writes only those below 108; the mirror map
\* is read over its whole range.
C29_Witness ==
    /\ LastCall.op = "render"
    /\ ffMode = 8 /\ pan = 255 /\ ffLedLength = 255
    /\ waveMiddle = 133 /\ oceanAmp = 109
    /\ \E k \in DOMAIN foregroundCalls(0) : foregroundCalls(0)[k].index = 241
    /\ ledWrites(0) # {}
    /\ 107 \in ledWrites(0)
    /\ mirrorReads # {}

(***************************************************************************)
(* Amplitude clamping                                                      *)
(***************************************************************************)

\* C30: clamping only ever shrinks the wave. In Ocean Waves (mode 8) and
\* Opposing Waves (mode 9), for every pan and ffLedLength in 0..127, the
\* amplitude the loop paints with is never greater than the requested
\* amplitude ffLedLength / 2.
C30_ClampOnlyShrinks ==
    /\ (LastCall.op = "render" /\ ffMode = 8 /\ oceanAmp > 0)
       => oceanAmp <= ffLedLength \div 2
    /\ (LastCall.op = "render" /\ ffMode = 9 /\ opposingAmp > 0)
       => opposingAmp <= ffLedLength \div 2

=============================================================================
